---- MODULE Spec2Model ----
(***************************************************************************)
(* Model of wyoming_porcupine3/__main__.py: the process-wide detector      *)
(* cache (State) and the per-connection event handler                      *)
(* (Porcupine3EventHandler).                                               *)
(*                                                                         *)
(* Scheduling: one asyncio task per connection.  The model lets a task be  *)
(* switched out where it awaits the pool lock (lines 59 and 267), where it *)
(* awaits write_event inside the frame loop (line 245) and around the      *)
(* engine factory call (line 78); everything between two such points is    *)
(* one atomic step.  This allows every schedule of the event loop (which   *)
(* switches tasks at awaits that block) and some more.  An exception that  *)
(* leaves handle_event ends the session.                                   *)
(*                                                                         *)
(* Scaling: the engine's frame_length (512 samples) is scaled to 1 sample, *)
(* so a frame is 2 bytes; a byte of audio is the pair <<timestamp of its   *)
(* delivery, position in that delivery>>, and a delivery's timestamp is    *)
(* the amount of audio the client sent before it.                          *)
(***************************************************************************)
EXTENDS Integers, Sequences, FiniteSets, TLC

\* ------------------------------------------------------------ bounds
\* Inbound events handled by the whole server (all sessions together).
MaxEvents == 4
\* Largest audio payload of one delivery, in bytes.
MaxChunkBytes == 4

\* ------------------------------------------------------------ constants
DEFAULT_KEYWORD == "porcupine"

\* --sensitivity default 0.5, in tenths.
DefaultSensitivity == 5

\* pvporcupine.KEYWORDS, a small universe of built-in keyword names.
KEYWORDS == {"porcupine", "picovoice", "alexa"}

\* Values of --language the model starts with ("en" is the default).
Languages == {"en", "p", "a"}

Sessions == {"c1", "c2"}

\* The connections whose client streams audio.  The client of the other
\* connection queries, selects keywords and disconnects: its audio would
\* touch nothing the connections share.
Streamers == {"c1"}

\* The characters of the strings the catalog builder compares.
Chars(str) ==
    CASE str = "porcupine" -> <<"p","o","r","c","u","p","i","n","e">>
      [] str = "picovoice" -> <<"p","i","c","o","v","o","i","c","e">>
      [] str = "alexa"     -> <<"a","l","e","x","a">>
      [] str = "en"        -> <<"e","n">>
      [] str = "p"         -> <<"p">>
      [] str = "a"         -> <<"a">>
      [] OTHER             -> <<>>

\* str.startswith
StartsWith(str, prefix) ==
    LET s == Chars(str)
        p == Chars(prefix)
    IN  /\ Len(p) <= Len(s)
        /\ SubSeq(s, 1, Len(p)) = p

\* main(): the names of the keywords kept for the requested language.
BuildKeywords(language) == {kw \in KEYWORDS : StartsWith(kw, language)}

\* Lines 141-164: one WakeModel per entry of keywords.values().
WakeModels(names, lang) == {[name |-> kw, language |-> lang] : kw \in names}

\* porcupine.frame_length of an engine (samples per frame; scaled).
FrameLength(porcupine) == 1

\* ------------------------------------------------------------ state
VARIABLES
    cli_language,    \* args.language
    cli_sensitivity, \* per session: self.cli_args.sensitivity
    keywords,        \* State.keywords: names in the catalog
    wyoming_info,    \* the wake models of the Info built by main()
    detector_cache,  \* State.detector_cache: keyword name -> idle detectors
    detector_lock,   \* State.detector_lock: holder, or "" when free
    created,         \* engines constructed so far by pvporcupine.create
    nevents,         \* inbound events handled so far (all sessions)
    pc,              \* per session: position of its task
    event,           \* per session: the event being handled
    detector,        \* self.detector
    keyword_name,    \* self.keyword_name
    chunk_format,    \* self.chunk_format: number of 'h' items, 0 for ""
    bytes_per_chunk, \* self.bytes_per_chunk
    audio_buffer,    \* self.audio_buffer
    detected,        \* self.detected
    keyword_index,   \* local of handle_event: result of the last process()
    written,         \* events written by write_event in the current handler
    received,        \* bytes of audio the client has sent on this connection
    released,        \* detector appended to the cache by the current _load_keyword
    fed,             \* frames passed to process() since the last keyword load
    delivered,       \* bytes received since the last keyword load
    base,            \* audio_buffer as it was when the keyword was loaded
    utterance        \* what happened since the last AudioStart

configVars == <<cli_language, cli_sensitivity, keywords, wyoming_info>>

sharedVars == <<configVars, detector_cache, detector_lock, created, nevents>>

sessionVars == <<pc, event, detector, keyword_name, chunk_format, bytes_per_chunk,
                 audio_buffer, detected, keyword_index, written>>

historyVars == <<received, released, fed, delivered, base, utterance>>

vars == <<sharedVars, sessionVars, historyVars>>

\* self.detector = None
NoDetector == [id |-> 0, keyword |-> "", sensitivity |-> 0]

\* Detector(porcupine, sensitivity); the engine is identified by its
\* construction number and remembers the keyword it was created for.
Detector(id, keyword, sensitivity) ==
    [id |-> id, keyword |-> keyword, sensitivity |-> sensitivity]

NoEvent == [type |-> "", names |-> <<>>, timestamp |-> 0, audio |-> <<>>]

InEvent(type, names, timestamp, audio) ==
    [type |-> type, names |-> names, timestamp |-> timestamp, audio |-> audio]

\* Outbound events.
\* Seeded fault: the info event is built without the wake models.
InfoEventNoModels == [type |-> "info", name |-> "", timestamp |-> 0, models |-> {}]

\* self.wyoming_info_event = wyoming_info.event()
InfoEvent == [type |-> "info", name |-> "", timestamp |-> 0, models |-> wyoming_info]
DetectionEvent(name, timestamp) ==
    [type |-> "detection", name |-> name, timestamp |-> timestamp, models |-> {}]
NotDetectedEvent ==
    [type |-> "not-detected", name |-> "", timestamp |-> 0, models |-> {}]

NoUtterance ==
    [state |-> "none", matches |-> 0, detections |-> 0, notDetected |-> 0]


\* ------------------------------------------------------------ Init
\* State.__init__ (empty cache, free lock) and, for every session,
\* Porcupine3EventHandler.__init__.
Fresh ==
    /\ detector_cache = [k \in KEYWORDS |-> <<>>]
    /\ detector_lock = ""
    /\ created = 0
    /\ nevents = 0
    /\ pc = [s \in Sessions |-> "idle"]
    /\ event = [s \in Sessions |-> NoEvent]
    /\ detector = [s \in Sessions |-> NoDetector]
    /\ keyword_name = [s \in Sessions |-> ""]
    /\ chunk_format = [s \in Sessions |-> 0]
    /\ bytes_per_chunk = [s \in Sessions |-> 0]
    /\ audio_buffer = [s \in Sessions |-> <<>>]
    /\ detected = [s \in Sessions |-> FALSE]
    /\ keyword_index = [s \in Sessions |-> -1]
    /\ written = [s \in Sessions |-> <<>>]
    /\ received = [s \in Sessions |-> 0]
    /\ released = [s \in Sessions |-> NoDetector]
    /\ fed = [s \in Sessions |-> <<>>]
    /\ delivered = [s \in Sessions |-> <<>>]
    /\ base = [s \in Sessions |-> <<>>]
    /\ utterance = [s \in Sessions |-> NoUtterance]

\* main(), lines 119-166: the catalog for --language lang, and the
\* sensitivity every handler finds in its cli_args.
Configured(lang, sens) ==
    /\ cli_language = lang
    /\ cli_sensitivity = sens
    /\ keywords = BuildKeywords(lang)
    /\ wyoming_info = WakeModels(BuildKeywords(lang), lang)

\* The server as main() starts it: one --sensitivity for all handlers.
Init ==
    /\ \E lang \in Languages :
          Configured(lang, [s \in Sessions |-> DefaultSensitivity])
    /\ Fresh

\* ------------------------------------------------------------ the pool
\* Seeded fault: the sensitivity of an idle detector is not compared.
CacheFindAny(detectors, sensitivity) ==
    IF detectors = <<>> THEN NoDetector ELSE detectors[1]

\* Seeded fault: the last matching detector is taken instead of the first.
CacheFindLast(detectors, sensitivity) ==
    LET hits == {i \in 1..Len(detectors) : detectors[i].sensitivity = sensitivity}
    IN  IF hits = {} THEN NoDetector
        ELSE detectors[CHOOSE i \in hits : \A j \in hits : i >= j]

\* next((d for d in detectors if d.sensitivity == sensitivity), None)
CacheFind(detectors, sensitivity) ==
    LET hits == {i \in 1..Len(detectors) : detectors[i].sensitivity = sensitivity}
    IN  IF hits = {} THEN NoDetector
        ELSE detectors[CHOOSE i \in hits : \A j \in hits : i <= j]

\* Seeded fault: the detector handed out stays in the idle list.
CacheRemoveNothing(detectors, d) == detectors

\* detectors.remove(detector): drops the first element equal to detector.
CacheRemove(detectors, d) ==
    LET hits == {i \in 1..Len(detectors) : detectors[i] = d}
        first == CHOOSE i \in hits : \A j \in hits : i <= j
    IN  IF hits = {} THEN detectors
        ELSE SubSeq(detectors, 1, first - 1) \o SubSeq(detectors, first + 1, Len(detectors))

\* Seeded fault: the detector is dropped instead of appended.
CacheAppendNothing(cache, name, d) == cache

\* Seeded fault: the detector is appended twice.
CacheAppendTwice(cache, name, d) ==
    [cache EXCEPT ![name] = Append(Append(@, d), d)]

\* detector_cache.setdefault(name, []).append(detector)
CacheAppend(cache, name, d) == [cache EXCEPT ![name] = Append(@, d)]

\* The keyword name the running _load_keyword was called with: names[0] of
\* a Detect event, DEFAULT_KEYWORD from an audio chunk.
Requested(s) ==
    IF event[s].type = "detect" THEN event[s].names[1] ELSE DEFAULT_KEYWORD

\* get_porcupine, lines 54-56: ValueError for a name that is not in the
\* catalog, otherwise on to the lock of line 59.
GetPorcupineEntry(name) ==
    IF name \notin keywords THEN "failed" ELSE "checkout_lock"

\* Seeded fault: the loaded detector is not returned to the pool first.
LoadKeywordEntryNoCheckin(s, name) == GetPorcupineEntry(name)

\* _load_keyword, line 265: with a detector loaded, first the lock of
\* line 267; otherwise straight into get_porcupine.
LoadKeywordEntry(s, name) ==
    IF detector[s] # NoDetector THEN "checkin_lock" ELSE GetPorcupineEntry(name)

\* ------------------------------------------------------------ audio
\* self.audio_buffer[: self.bytes_per_chunk]
FrameOf(buffer, n) == SubSeq(buffer, 1, n)

\* Seeded fault: the processed frame is not cut off the buffer.
RestOfNothing(buffer, n) == buffer

\* self.audio_buffer[self.bytes_per_chunk :]
RestOf(buffer, n) == SubSeq(buffer, n + 1, Len(buffer))

\* Seeded fault: a buffer holding exactly one frame is not processed.
LoopPcStrict(buffer, n) == IF Len(buffer) > n THEN "loop" ELSE "idle"

\* while len(self.audio_buffer) >= self.bytes_per_chunk
LoopPc(buffer, n) == IF Len(buffer) >= n THEN "loop" ELSE "idle"

\* The payload of a delivery: n bytes stamped with the delivery's timestamp.
Audio(timestamp, n) == [i \in 1..n |-> <<timestamp, i>>]

\* An utterance that has ended is over once the next event is handled.
CloseUtterance(u) == IF u.state = "ended" THEN NoUtterance ELSE u

\* Start of handle_event for session s: nothing written yet.
BeginHandler(s, e) ==
    /\ pc[s] = "idle"
    /\ nevents < MaxEvents
    /\ nevents' = nevents + 1
    /\ event' = [event EXCEPT ![s] = e]

\* ------------------------------------------------------------ _load_keyword
\* The handler's code after `await self._load_keyword(...)` returns with
\* detector d: lines 276-281, then for a Detect event the end of
\* handle_event, for an audio chunk lines 230-236 (the assert holds, the
\* converted payload is appended, the loop condition is tested).
FinishLoad(s, d) ==
    LET n == FrameLength(d) * 2
        buf == IF event[s].type = "audio-chunk"
               THEN audio_buffer[s] \o event[s].audio
               ELSE audio_buffer[s]
    IN  /\ detector' = [detector EXCEPT ![s] = d]
        /\ keyword_name' = [keyword_name EXCEPT ![s] = Requested(s)]
        /\ chunk_format' = [chunk_format EXCEPT ![s] = FrameLength(d)]
        /\ bytes_per_chunk' = [bytes_per_chunk EXCEPT ![s] = n]
        /\ audio_buffer' = [audio_buffer EXCEPT ![s] = buf]
        /\ base' = [base EXCEPT ![s] = audio_buffer[s]]
        /\ fed' = [fed EXCEPT ![s] = <<>>]
        /\ delivered' = [delivered EXCEPT ![s] =
                            IF event[s].type = "audio-chunk" THEN event[s].audio ELSE <<>>]
        /\ pc' = [pc EXCEPT ![s] =
                    IF event[s].type = "audio-chunk" THEN LoopPc(buf, n) ELSE "idle"]

\* Line 267: async with self.state.detector_lock (waits while it is held).
CheckinAcquire(s) ==
    /\ pc[s] = "checkin_lock"
    /\ detector_lock = ""
    /\ detector_lock' = s
    /\ pc' = [pc EXCEPT ![s] = "checkin_cs"]
    /\ UNCHANGED <<configVars, detector_cache, created, nevents>>
    /\ UNCHANGED <<event, detector, keyword_name, chunk_format, bytes_per_chunk,
                   audio_buffer, detected, keyword_index, written>>
    /\ UNCHANGED historyVars

\* Lines 268-274, then the entry of get_porcupine (lines 54-56): the
\* current detector is appended to the idle list of the current keyword,
\* the lock is released and the session's keyword fields are cleared.
Checkin(s) ==
    /\ pc[s] = "checkin_cs"
    /\ detector_cache' = CacheAppend(detector_cache, keyword_name[s], detector[s])
    /\ detector_lock' = ""
    /\ released' = [released EXCEPT ![s] = detector[s]]
    /\ detector' = [detector EXCEPT ![s] = NoDetector]
    /\ keyword_name' = [keyword_name EXCEPT ![s] = ""]
    /\ chunk_format' = [chunk_format EXCEPT ![s] = 0]
    /\ bytes_per_chunk' = [bytes_per_chunk EXCEPT ![s] = 0]
    /\ pc' = [pc EXCEPT ![s] = GetPorcupineEntry(Requested(s))]
    /\ UNCHANGED <<configVars, created, nevents>>
    /\ UNCHANGED <<event, audio_buffer, detected, keyword_index, written>>
    /\ UNCHANGED <<received, fed, delivered, base, utterance>>

\* Seeded fault: on a miss the lock is kept while the engine is built.
LockKeptOnMiss(s, d) == IF d = NoDetector THEN s ELSE ""

\* End of the `async with` block of line 59: the lock is released on the
\* hit (return at line 73) and on the miss (fall through to line 75).
LockAfterScan(s, d) == ""

\* Line 59: async with self.detector_lock.
CheckoutAcquire(s) ==
    /\ pc[s] = "checkout_lock"
    /\ detector_lock = ""
    /\ detector_lock' = s
    /\ pc' = [pc EXCEPT ![s] = "checkout_cs"]
    /\ UNCHANGED <<configVars, detector_cache, created, nevents>>
    /\ UNCHANGED <<event, detector, keyword_name, chunk_format, bytes_per_chunk,
                   audio_buffer, detected, keyword_index, written>>
    /\ UNCHANGED historyVars

\* Lines 60-73: the first idle detector of the requested keyword with the
\* requested sensitivity is removed from the list and returned; without
\* one the lock is released and the engine is constructed next.
CheckoutScan(s) ==
    /\ pc[s] = "checkout_cs"
    /\ LET name == Requested(s)
           d == CacheFind(detector_cache[name], cli_sensitivity[s])
       IN  /\ detector_lock' = LockAfterScan(s, d)
           /\ IF d # NoDetector
              THEN /\ detector_cache' =
                          [detector_cache EXCEPT ![name] = CacheRemove(@, d)]
                   /\ FinishLoad(s, d)
              ELSE /\ pc' = [pc EXCEPT ![s] = "create"]
                   /\ UNCHANGED <<detector_cache, detector, keyword_name, chunk_format,
                                  bytes_per_chunk, audio_buffer, fed, delivered, base>>
    /\ UNCHANGED <<configVars, created, nevents>>
    /\ UNCHANGED <<event, detected, keyword_index, written, received, released,
                   utterance>>

\* Seeded fault: the exception is swallowed and the caller carries on.
CreateRaisedContinues(s) ==
    IF event[s].type = "audio-chunk" THEN "loop" ELSE "idle"

\* Lines 78-82 raise: nothing up to handle_event's caller catches the
\* exception, so neither line 276 nor the rest of the handler runs.
CreateRaisedPc(s) == "failed"

\* Lines 78-84: pvporcupine.create returns a new engine, or raises (bad
\* access key, missing model, no resources) and the session ends.
Create(s) ==
    /\ pc[s] = "create"
    /\ \E ok \in BOOLEAN :
          IF ok
          THEN /\ created' = created + 1
               /\ FinishLoad(s, Detector(created + 1, Requested(s), cli_sensitivity[s]))
          ELSE /\ pc' = [pc EXCEPT ![s] = CreateRaisedPc(s)]
               /\ UNCHANGED <<created, detector, keyword_name, chunk_format,
                              bytes_per_chunk, audio_buffer, fed, delivered, base>>
    /\ UNCHANGED <<configVars, detector_cache, detector_lock, nevents>>
    /\ UNCHANGED <<event, detected, keyword_index, written, received, released,
                   utterance>>

\* ------------------------------------------------------------ handle_event
\* Lines 213-216: Describe is answered with the info event.
RecvDescribe(s) ==
    /\ BeginHandler(s, InEvent("describe", <<>>, 0, <<>>))
    /\ written' = [written EXCEPT ![s] = <<InfoEvent>>]
    /\ keyword_index' = [keyword_index EXCEPT ![s] = -1]
    /\ released' = [released EXCEPT ![s] = NoDetector]
    /\ utterance' = [utterance EXCEPT ![s] = CloseUtterance(@)]
    /\ UNCHANGED <<configVars, detector_cache, detector_lock, created>>
    /\ UNCHANGED <<pc, detector, keyword_name, chunk_format, bytes_per_chunk,
                   audio_buffer, detected>>
    /\ UNCHANGED <<received, fed, delivered, base>>

\* Lines 218-222: Detect with a non-empty list of names loads names[0].
RecvDetect(s) ==
    \E names \in {<<>>} \cup {<<k>> : k \in KEYWORDS} :
        /\ BeginHandler(s, InEvent("detect", names, 0, <<>>))
        /\ pc' = [pc EXCEPT ![s] =
                    IF names # <<>> THEN LoadKeywordEntry(s, names[1]) ELSE "idle"]
        /\ written' = [written EXCEPT ![s] = <<>>]
        /\ keyword_index' = [keyword_index EXCEPT ![s] = -1]
        /\ released' = [released EXCEPT ![s] = NoDetector]
        /\ utterance' = [utterance EXCEPT ![s] = CloseUtterance(@)]
        /\ UNCHANGED <<configVars, detector_cache, detector_lock, created>>
        /\ UNCHANGED <<detector, keyword_name, chunk_format, bytes_per_chunk,
                       audio_buffer, detected>>
        /\ UNCHANGED <<received, fed, delivered, base>>

\* Seeded fault: AudioStart leaves the flag as it is.
DetectedAtStartKept(flag) == flag

\* Line 224: self.detected = False
DetectedAtStart(flag) == FALSE

\* Lines 223-224: AudioStart clears the detected flag.
RecvAudioStart(s) ==
    /\ BeginHandler(s, InEvent("audio-start", <<>>, 0, <<>>))
    /\ detected' = [detected EXCEPT ![s] = DetectedAtStart(@)]
    /\ written' = [written EXCEPT ![s] = <<>>]
    /\ keyword_index' = [keyword_index EXCEPT ![s] = -1]
    /\ released' = [released EXCEPT ![s] = NoDetector]
    /\ utterance' = [utterance EXCEPT ![s] = [NoUtterance EXCEPT !.state = "open"]]
    /\ UNCHANGED <<configVars, detector_cache, detector_lock, created>>
    /\ UNCHANGED <<pc, detector, keyword_name, chunk_format, bytes_per_chunk,
                   audio_buffer>>
    /\ UNCHANGED <<received, fed, delivered, base>>

\* Lines 225-236: an audio chunk.  Without a detector the default keyword
\* is loaded first; otherwise the payload (as the converter returns it:
\* 16 kHz, 16 bit, mono, timestamp kept) is appended to the buffer.
RecvAudioChunk(s) ==
    \E n \in 1..MaxChunkBytes :
        LET ts == received[s]
            e == InEvent("audio-chunk", <<>>, ts, Audio(ts, n))
            buf == audio_buffer[s] \o e.audio
        IN  /\ BeginHandler(s, e)
            /\ IF detector[s] = NoDetector
               THEN /\ pc' = [pc EXCEPT ![s] = LoadKeywordEntry(s, DEFAULT_KEYWORD)]
                    /\ UNCHANGED <<audio_buffer, delivered>>
               ELSE /\ audio_buffer' = [audio_buffer EXCEPT ![s] = buf]
                    /\ delivered' = [delivered EXCEPT ![s] = @ \o e.audio]
                    /\ pc' = [pc EXCEPT ![s] = LoopPc(buf, bytes_per_chunk[s])]
            /\ written' = [written EXCEPT ![s] = <<>>]
            /\ keyword_index' = [keyword_index EXCEPT ![s] = -1]
            /\ received' = [received EXCEPT ![s] = @ + n]
            /\ released' = [released EXCEPT ![s] = NoDetector]
            /\ utterance' = [utterance EXCEPT ![s] = CloseUtterance(@)]
            /\ UNCHANGED <<configVars, detector_cache, detector_lock, created>>
            /\ UNCHANGED <<detector, keyword_name, chunk_format, bytes_per_chunk,
                           detected>>
            /\ UNCHANGED <<fed, base>>

\* Seeded fault: the detection is stamped with the delivery of the frame's
\* first byte.
DetectionForFrame(s) == DetectionEvent(keyword_name[s], audio_buffer[s][1][1])

\* Lines 246-248: Detection(name=self.keyword_name, timestamp=chunk.timestamp)
DetectionFor(s) == DetectionEvent(keyword_name[s], event[s].timestamp)

\* Seeded fault: a match does not set the flag.
DetectedAfterUnset(flag, index) == flag

\* Lines 241 and 250: self.detected after a frame with result index.
DetectedAfter(flag, index) == IF index >= 0 THEN TRUE ELSE flag

\* Lines 251-252: the return taken on a match while handling an AudioStop.
StopsAtMatch(s, index) == index >= 0 /\ event[s].type = "audio-stop"

\* Lines 236-254, one iteration of the frame loop: the first
\* bytes_per_chunk bytes go to porcupine.process, whose answer is the
\* engine's; a match is reported and sets the flag; the frame is removed.
ProcessFrame(s) ==
    /\ pc[s] = "loop"
    /\ \E index \in {-1, 0} :
          LET n == bytes_per_chunk[s]
              frame == FrameOf(audio_buffer[s], n)
              rest == RestOf(audio_buffer[s], n)
              hit == index >= 0
              open == utterance[s].state = "open"
          IN  /\ keyword_index' = [keyword_index EXCEPT ![s] = index]
              /\ fed' = [fed EXCEPT ![s] = Append(@, frame)]
              /\ written' = [written EXCEPT ![s] =
                                IF hit THEN Append(@, DetectionFor(s)) ELSE @]
              /\ detected' = [detected EXCEPT ![s] = DetectedAfter(@, index)]
              /\ utterance' = [utterance EXCEPT ![s] =
                                IF hit /\ open
                                THEN [@ EXCEPT !.matches = @ + 1, !.detections = @ + 1]
                                ELSE @]
              /\ IF StopsAtMatch(s, index)
                 THEN /\ pc' = [pc EXCEPT ![s] = "idle"]
                      /\ UNCHANGED audio_buffer
                 ELSE /\ audio_buffer' = [audio_buffer EXCEPT ![s] = rest]
                      /\ pc' = [pc EXCEPT ![s] = LoopPc(rest, n)]
    /\ UNCHANGED sharedVars
    /\ UNCHANGED <<event, detector, keyword_name, chunk_format, bytes_per_chunk>>
    /\ UNCHANGED <<received, released, delivered, base>>

\* Line 257: if not self.detected
ReportsNotDetected(flag) == ~flag

\* Lines 256-259: AudioStop reports NotDetected unless the flag is set.
RecvAudioStop(s) ==
    LET report == ReportsNotDetected(detected[s])
    IN  /\ BeginHandler(s, InEvent("audio-stop", <<>>, 0, <<>>))
        /\ written' = [written EXCEPT ![s] =
                          IF report THEN <<NotDetectedEvent>> ELSE <<>>]
        /\ keyword_index' = [keyword_index EXCEPT ![s] = -1]
        /\ released' = [released EXCEPT ![s] = NoDetector]
        /\ utterance' = [utterance EXCEPT ![s] =
                          IF @.state = "open"
                          THEN [@ EXCEPT !.state = "ended",
                                         !.notDetected = IF report THEN 1 ELSE 0]
                          ELSE NoUtterance]
        /\ UNCHANGED <<configVars, detector_cache, detector_lock, created>>
        /\ UNCHANGED <<pc, detector, keyword_name, chunk_format, bytes_per_chunk,
                       audio_buffer, detected>>
        /\ UNCHANGED <<received, fed, delivered, base>>

\* The connection is closed.  The class defines no disconnect(), so the
\* inherited no-op runs: nothing of the session or of the cache changes.
Disconnect(s) ==
    /\ pc[s] = "idle"
    /\ nevents < MaxEvents
    /\ nevents' = nevents + 1
    /\ pc' = [pc EXCEPT ![s] = "closed"]
    /\ utterance' = [utterance EXCEPT ![s] = CloseUtterance(@)]
    /\ UNCHANGED <<configVars, detector_cache, detector_lock, created>>
    /\ UNCHANGED <<event, detector, keyword_name, chunk_format, bytes_per_chunk,
                   audio_buffer, detected, keyword_index, written>>
    /\ UNCHANGED <<received, released, fed, delivered, base>>

\* ------------------------------------------------------------ specification
Next ==
    \E s \in Sessions :
        \/ RecvDescribe(s)
        \/ RecvDetect(s)
        \/ (s \in Streamers /\ RecvAudioStart(s))
        \/ (s \in Streamers /\ RecvAudioChunk(s))
        \/ (s \in Streamers /\ RecvAudioStop(s))
        \/ ProcessFrame(s)
        \/ CheckinAcquire(s)
        \/ Checkin(s)
        \/ CheckoutAcquire(s)
        \/ CheckoutScan(s)
        \/ Create(s)
        \/ Disconnect(s)

Spec == Init /\ [][Next]_vars

\* ------------------------------------------------------------ one connection
\* The server with the streaming connection alone.
StreamNext ==
    \E s \in Streamers :
        \/ RecvDescribe(s)
        \/ RecvDetect(s)
        \/ RecvAudioStart(s)
        \/ RecvAudioChunk(s)
        \/ RecvAudioStop(s)
        \/ ProcessFrame(s)
        \/ CheckinAcquire(s)
        \/ Checkin(s)
        \/ CheckoutAcquire(s)
        \/ CheckoutScan(s)
        \/ Create(s)
        \/ Disconnect(s)

\* The event loop resumes a task whose await has completed: a handler in
\* its frame loop is not suspended forever.
StreamSpec ==
    /\ Init
    /\ [][StreamNext]_vars
    /\ \A s \in Streamers : WF_vars(ProcessFrame(s))

\* ------------------------------------------------------------ the pool alone
\* get_porcupine(keyword_name, sensitivity) takes the sensitivity as an
\* argument.  main() passes one value to every handler; here each handler
\* is constructed with cli_args of its own, so that the pool is asked for
\* the same keyword at different sensitivities.
Sensitivities == {3, DefaultSensitivity}

PoolInit ==
    /\ \E lang \in Languages, sens \in [Sessions -> Sensitivities] :
          Configured(lang, sens)
    /\ Fresh

\* Keyword selection only: every path into and out of get_porcupine.
PoolNext ==
    \E s \in Sessions :
        \/ RecvDetect(s)
        \/ CheckinAcquire(s)
        \/ Checkin(s)
        \/ CheckoutAcquire(s)
        \/ CheckoutScan(s)
        \/ Create(s)

PoolSpec == PoolInit /\ [][PoolNext]_vars

\* ------------------------------------------------------------ vocabulary of the properties
\* The detectors in the idle list of keyword k.
IdleOf(k) == {detector_cache[k][i] : i \in 1..Len(detector_cache[k])}

\* d is idle in the pool.
IsIdle(d) == \E k \in KEYWORDS : d \in IdleOf(k)

\* Positions of d in a list.
PositionsOf(detectors, d) == {i \in 1..Len(detectors) : detectors[i] = d}

\* Session s is inside the checkout of _load_keyword (get_porcupine).
InCheckout(s) == pc[s] \in {"checkout_lock", "checkout_cs", "create"}

RECURSIVE Flatten(_)
Flatten(frames) ==
    IF frames = <<>> THEN <<>> ELSE Head(frames) \o Flatten(Tail(frames))

\* The bytes of a sequence of bytes, as a set.
BytesOf(bytes) == {bytes[i] : i \in 1..Len(bytes)}

\* The timestamp of the delivery that supplied a frame's first byte.
FrameTimestamp(frame) == frame[1][1]

\* Session s has just handled the AudioStop that ends an utterance.
UtteranceEnded(s) ==
    /\ pc[s] = "idle"
    /\ event[s].type = "audio-stop"
    /\ utterance[s].state = "ended"

\* ------------------------------------------------------------ C1
\* C1: in every reachable state no detector is held by two sessions, and no
\* detector a session holds is in an idle list of the pool.
C1_ExclusiveOwnership ==
    \A s \in Sessions :
        detector[s] # NoDetector =>
            /\ \A t \in Sessions \ {s} : detector[t].id # detector[s].id
            /\ \A k \in KEYWORDS : \A i \in 1..Len(detector_cache[k]) :
                   detector_cache[k][i].id # detector[s].id

\* Two overlapping checkouts of one keyword after a single check-in: t
\* checked its detector in and is now constructing a new engine because s
\* took that detector from the idle list in between.
C1_Witness ==
    \E s \in Sessions : \E t \in Sessions \ {s} :
        /\ pc[t] = "create"
        /\ released[t] # NoDetector
        /\ released[t].keyword = Requested(t)
        /\ detector[s] = released[t]
        /\ event[s].type = "detect"

\* ------------------------------------------------------------ C2
\* C2: once a session is closed, the detector it had loaded is in an idle
\* list of the pool (teardown checks it in).
C2_TeardownChecksIn ==
    \A s \in Sessions :
        (pc[s] = "closed" /\ detector[s] # NoDetector) => IsIdle(detector[s])

\* ------------------------------------------------------------ C3
\* C3: at most one detection event is emitted between an AudioStart and
\* the AudioStop that follows it.
C3_OneDetectionPerUtterance ==
    \A s \in Sessions :
        utterance[s].state \in {"open", "ended"} => utterance[s].detections <= 1

\* ------------------------------------------------------------ C4
\* C4: when the AudioStop of an utterance in which no frame matched has
\* been handled, exactly one NotDetected event was written, by that
\* handler; none is written while the utterance is open.
C4_NotDetectedOnce ==
    \A s \in Sessions :
        /\ (UtteranceEnded(s) /\ utterance[s].matches = 0) =>
               /\ written[s] = <<NotDetectedEvent>>
               /\ utterance[s].notDetected = 1
        /\ utterance[s].state = "open" =>
               \A i \in 1..Len(written[s]) : written[s][i] # NotDetectedEvent

\* An utterance with audio, no match, and its NotDetected report.
C4_Witness ==
    \E s \in Sessions :
        /\ UtteranceEnded(s)
        /\ utterance[s].matches = 0
        /\ fed[s] # <<>>
        /\ written[s] = <<NotDetectedEvent>>

\* ------------------------------------------------------------ C5
\* C5: when the AudioStop of an utterance in which a frame matched has
\* been handled, no NotDetected event was written.
C5_NoReportAfterMatch ==
    \A s \in Sessions :
        (UtteranceEnded(s) /\ utterance[s].matches >= 1) =>
            /\ written[s] = <<>>
            /\ utterance[s].notDetected = 0

\* An utterance with a match, ended without a report.
C5_Witness ==
    \E s \in Sessions :
        /\ UtteranceEnded(s)
        /\ utterance[s].matches >= 1
        /\ written[s] = <<>>

\* ------------------------------------------------------------ C6
\* C6 as stated: a detection event carries the timestamp of the frame that
\* matched, that is of the delivery the frame's first byte came with.
C6_FrameTimestamp ==
    \A s \in Sessions :
        keyword_index[s] >= 0 =>
            /\ written[s] # <<>>
            /\ written[s][Len(written[s])].name = keyword_name[s]
            /\ written[s][Len(written[s])].timestamp =
                   FrameTimestamp(fed[s][Len(fed[s])])

\* C6 as amended: every detection event carries the active keyword's name
\* and the timestamp of the audio delivery being handled when the match is
\* found, and each match is followed by such an event.
C6_DeliveryTimestamp ==
    \A s \in Sessions :
        /\ \A i \in 1..Len(written[s]) :
               written[s][i].type = "detection" =>
                   /\ event[s].type = "audio-chunk"
                   /\ keyword_name[s] = detector[s].keyword
                   /\ written[s][i] = DetectionEvent(keyword_name[s], event[s].timestamp)
        /\ keyword_index[s] >= 0 =>
               /\ written[s] # <<>>
               /\ written[s][Len(written[s])].type = "detection"

\* A match in a frame that starts with a byte left over from an earlier
\* delivery.
C6_Witness ==
    \E s \in Sessions :
        /\ keyword_index[s] >= 0
        /\ written[s] # <<>>
        /\ FrameTimestamp(fed[s][Len(fed[s])]) # event[s].timestamp

\* ------------------------------------------------------------ C7
\* C7: a session is inside the checkout of a keyword load only with no
\* detector of its own; it enters the checkout from a loaded state only
\* through the check-in step, and that step appends the detector it held
\* to the end of the idle list of the keyword it was loaded for and clears
\* self.detector.
C7_CheckinBeforeCheckout ==
    /\ [](\A s \in Sessions : InCheckout(s) => detector[s] = NoDetector)
    /\ [][\A s \in Sessions :
            /\ (~InCheckout(s) /\ InCheckout(s)' /\ detector[s] # NoDetector) =>
                   pc[s] = "checkin_cs"
            /\ (pc[s] = "checkin_cs" /\ pc'[s] # "checkin_cs") =>
                   /\ detector'[s] = NoDetector
                   /\ detector_cache'[keyword_name[s]] =
                          Append(detector_cache[keyword_name[s]], detector[s])
                   /\ detector[s].keyword = keyword_name[s]
         ]_vars

\* A switch to another keyword whose checkout is about to begin: the old
\* detector is idle under the old keyword and the session holds none.
C7_Witness ==
    \E s \in Sessions :
        /\ pc[s] = "checkout_lock"
        /\ released[s] # NoDetector
        /\ released[s].keyword # Requested(s)
        /\ released[s] \in IdleOf(released[s].keyword)
        /\ detector[s] = NoDetector

\* ------------------------------------------------------------ C8
\* C8: after a keyword-selection request has replaced the loaded keyword
\* the audio buffer is empty, and every frame passed to the engine of the
\* current keyword consists of bytes delivered since that keyword was
\* loaded.
C8_SwitchResetsBacklog ==
    \A s \in Sessions :
        /\ ( /\ pc[s] = "idle"
             /\ event[s].type = "detect"
             /\ released[s] # NoDetector
             /\ detector[s] # NoDetector
             /\ released[s].keyword # keyword_name[s] ) => audio_buffer[s] = <<>>
        /\ \A i \in 1..Len(fed[s]) : BytesOf(fed[s][i]) \subseteq BytesOf(delivered[s])

\* ------------------------------------------------------------ C9
\* C9: with a keyword loaded on an empty buffer and N bytes delivered since,
\* the frames passed to the engine followed by the buffer are the delivered
\* bytes in order and every frame has bytes_per_chunk bytes; once the
\* delivery is handled there are N div L frames and N mod L buffered bytes.
C9_Reassembly ==
    \A s \in Sessions :
        (detector[s] # NoDetector /\ base[s] = <<>>) =>
            LET N == Len(delivered[s])
                L == bytes_per_chunk[s]
            IN  /\ L > 0
                /\ Flatten(fed[s]) \o audio_buffer[s] = delivered[s]
                /\ \A i \in 1..Len(fed[s]) : Len(fed[s][i]) = L
                /\ pc[s] # "loop" =>
                       /\ Len(fed[s]) = N \div L
                       /\ Len(audio_buffer[s]) = N % L
                       /\ Len(audio_buffer[s]) < L

\* Two frames, one of them assembled from two deliveries, and a byte left.
C9_Witness ==
    \E s \in Sessions :
        /\ pc[s] = "idle"
        /\ detector[s] # NoDetector
        /\ base[s] = <<>>
        /\ Len(fed[s]) >= 2
        /\ Len(audio_buffer[s]) = 1
        /\ \E i \in 1..Len(fed[s]) : fed[s][i][1][1] # fed[s][i][2][1]

\* ------------------------------------------------------------ C10
\* Session s leaves the scan of the idle list in this step, looking for the
\* keyword of the detector it has just checked in, which is still idle.
ScansAfterOwnCheckin(s) ==
    /\ pc[s] = "checkout_cs"
    /\ pc'[s] # "checkout_cs"
    /\ released[s] # NoDetector
    /\ released[s].keyword = Requested(s)
    /\ released[s] \in IdleOf(Requested(s))

\* C10 as stated: such a checkout returns the detector just checked in and
\* constructs no engine.
C10_ReusesCheckedIn ==
    [][\A s \in Sessions :
            ScansAfterOwnCheckin(s) =>
                /\ detector'[s] = released[s]
                /\ created' = created
                /\ pc'[s] # "create"
      ]_vars

\* C10 as amended: such a checkout constructs no engine and returns the
\* earliest idle detector of the keyword with the requested sensitivity,
\* which is the one just checked in exactly when no other idle detector of
\* that sensitivity was in the list before it.
C10_ReusesFirstIdle ==
    [][\A s \in Sessions :
            ScansAfterOwnCheckin(s) =>
                LET idle == detector_cache[Requested(s)]
                    mine == PositionsOf(idle, released[s])
                    got == PositionsOf(idle, detector'[s])
                IN  /\ created' = created
                    /\ pc'[s] # "create"
                    /\ got # {}
                    /\ detector'[s].sensitivity = DefaultSensitivity
                    /\ \A i \in got : \A j \in 1..(i - 1) :
                           idle[j].sensitivity # DefaultSensitivity
                    /\ detector'[s] = released[s] <=>
                           \A i \in mine : \A j \in 1..(i - 1) :
                               idle[j].sensitivity # DefaultSensitivity
                    /\ detector_cache'[Requested(s)] = CacheRemove(idle, detector'[s])
      ]_vars

\* A session that reselected its keyword and was given an older idle
\* detector, while the one it checked in stays idle.
C10_Witness ==
    \E s \in Sessions :
        /\ pc[s] = "idle"
        /\ released[s] # NoDetector
        /\ detector[s] # NoDetector
        /\ detector[s].keyword = released[s].keyword
        /\ detector[s].id < released[s].id
        /\ released[s] \in IdleOf(released[s].keyword)

\* C11: a detector handed out by get_porcupine(K, S) has sensitivity S.  A
\* scan that finds idle detectors of K with sensitivity S hands out one of
\* them and leaves every idle detector of another sensitivity in the list
\* of K; a scan that finds none leaves the list alone and goes on to
\* construct a new engine, which gets sensitivity S.
SameElsewhere(name) ==
    \A k \in KEYWORDS \ {name} : detector_cache'[k] = detector_cache[k]

C11_CheckoutMatchesSensitivity ==
    /\ [](\A s \in Sessions :
            detector[s] # NoDetector => detector[s].sensitivity = cli_sensitivity[s])
    /\ [][\A s \in Sessions :
            /\ (pc[s] = "checkout_cs" /\ pc'[s] # "checkout_cs") =>
                  LET name == Requested(s)
                      idle == detector_cache[name]
                      left == detector_cache'[name]
                      hits == {i \in 1..Len(idle) :
                                  idle[i].sensitivity = cli_sensitivity[s]}
                  IN  /\ SameElsewhere(name)
                      /\ IF hits = {}
                         THEN /\ pc'[s] = "create"
                              /\ left = idle
                              /\ detector'[s] = NoDetector
                         ELSE /\ \E i \in hits : detector'[s] = idle[i]
                              /\ Len(left) = Len(idle) - 1
                              /\ \A j \in 1..Len(idle) :
                                    idle[j].sensitivity # cli_sensitivity[s] =>
                                        PositionsOf(left, idle[j]) # {}
            /\ (pc[s] = "create" /\ pc'[s] \notin {"create", "failed"}) =>
                  /\ detector'[s] =
                        Detector(created + 1, Requested(s), cli_sensitivity[s])
                  /\ created' = created + 1
                  /\ detector_cache' = detector_cache
       ]_vars

\* C11 witness: a session holds a detector of a keyword while a detector
\* of the same keyword with another sensitivity is idle, passed over by
\* its checkout.
C11_Witness ==
    \E s \in Sessions :
        /\ detector[s] # NoDetector
        /\ \E d \in IdleOf(detector[s].keyword) :
              /\ d.sensitivity # detector[s].sensitivity
              /\ d.id < detector[s].id

\* Session s is handling, or has been ended by, a Detect event whose first
\* name is not a key of State.keywords.
SelectsUnknown(s) ==
    /\ event[s].type = "detect"
    /\ event[s].names # <<>>
    /\ event[s].names[1] \notin keywords

\* C12: a Detect event naming a keyword that is not in the catalog leaves
\* the session as it was: the handler is not ended by an exception and
\* has checked nothing into the pool (so its detector, keyword name and
\* frame length are kept and the idle lists are untouched).
C12_UnknownKeywordKeepsState ==
    \A s \in Sessions :
        SelectsUnknown(s) =>
            /\ pc[s] # "failed"
            /\ released[s] = NoDetector

\* C13: the catalog has one wake model per keyword of the configured
\* language; when no keyword matches the language it holds the default
\* keyword with the default language instead, so it is never empty.
C13_CatalogNeverEmpty ==
    LET matching == {kw \in KEYWORDS : StartsWith(kw, cli_language)}
    IN  /\ wyoming_info # {}
        /\ keywords # {}
        /\ IF matching = {}
           THEN /\ keywords = {DEFAULT_KEYWORD}
                /\ wyoming_info = {[name |-> DEFAULT_KEYWORD, language |-> "en"]}
           ELSE /\ keywords = matching
                /\ wyoming_info =
                     {[name |-> kw, language |-> cli_language] : kw \in matching}

\* The step is the whole handling of a Describe event by session s.
HandlesDescribe(s) ==
    /\ pc[s] = "idle"
    /\ pc'[s] = "idle"
    /\ nevents' = nevents + 1
    /\ event'[s].type = "describe"
    /\ \A t \in Sessions \ {s} : event'[t] = event[t] /\ pc'[t] = pc[t]

\* C14: handling a Describe event writes exactly one event, the info event
\* built by main() with its wake models, and changes neither the session
\* (detector, keyword name, frame length, backlog, detected flag) nor the
\* pool, whatever state the session is in.
C14_DescribeOnlyWritesInfo ==
    [][\A s \in Sessions :
          HandlesDescribe(s) =>
              /\ written'[s] =
                    <<[type |-> "info", name |-> "", timestamp |-> 0,
                       models |-> WakeModels(keywords, cli_language)]>>
              /\ detector'[s] = detector[s]
              /\ keyword_name'[s] = keyword_name[s]
              /\ chunk_format'[s] = chunk_format[s]
              /\ bytes_per_chunk'[s] = bytes_per_chunk[s]
              /\ audio_buffer'[s] = audio_buffer[s]
              /\ detected'[s] = detected[s]
              /\ detector_cache' = detector_cache
              /\ detector_lock' = detector_lock
      ]_vars

\* C14 witness: a Describe answered in the middle of an utterance, with a
\* keyword loaded, a byte in the backlog and a match already reported.
C14_Witness ==
    \E s \in Sessions :
        /\ pc[s] = "idle"
        /\ event[s].type = "describe"
        /\ written[s] = <<InfoEvent>>
        /\ InfoEvent.models # {}
        /\ detector[s] # NoDetector
        /\ audio_buffer[s] # <<>>
        /\ detected[s]
        /\ utterance[s].state = "open"

\* The step in which pvporcupine.create raises in session s.
FactoryRejects(s) == pc[s] = "create" /\ pc'[s] = "failed"

\* C15: when pvporcupine.create raises during a keyword load, the session
\* is left without a detector (no keyword name, frame length 0), it has
\* written no event, and the detector it checked in before the request is
\* not lost: it is idle in the pool, or another session has checked it
\* out since.
C15_FactoryFailureLeavesNoHandle ==
    [][\A s \in Sessions :
          FactoryRejects(s) =>
              /\ detector'[s] = NoDetector
              /\ keyword_name'[s] = ""
              /\ chunk_format'[s] = 0
              /\ bytes_per_chunk'[s] = 0
              /\ written'[s] = <<>>
              /\ detector_cache' = detector_cache
              /\ released[s] # NoDetector =>
                    \/ Cardinality({k \in KEYWORDS :
                           PositionsOf(detector_cache'[k], released[s]) # {}}) = 1
                    \/ \E t \in Sessions \ {s} : detector'[t] = released[s]
      ]_vars

\* C15 witness: a session ended by a rejected construction whose former
\* detector is idle in the pool.
C15_Witness ==
    \E s \in Sessions :
        /\ pc[s] = "failed"
        /\ event[s].type = "detect"
        /\ Requested(s) \in keywords
        /\ released[s] # NoDetector
        /\ IsIdle(released[s])
        /\ detector[s] = NoDetector

\* Session s is inside one of the two `async with detector_lock` blocks.
InLockedBlock(s) == pc[s] \in {"checkin_cs", "checkout_cs"}

\* C16: a session holds the pool lock exactly while it is inside one of
\* the two locked blocks, so never while pvporcupine.create runs for it
\* (another session can hold the lock meanwhile); and the idle-list map
\* is read (the scan) and written only in a step taken by the session
\* that holds the lock, which releases it in that step.
C16_LockNotHeldDuringCreate ==
    /\ [](/\ detector_lock \in Sessions \cup {""}
          /\ \A s \in Sessions : detector_lock = s <=> InLockedBlock(s)
          /\ \A s \in Sessions : pc[s] = "create" => detector_lock # s)
    /\ [][\A s \in Sessions :
             (detector_cache' # detector_cache \/ (pc[s] = "checkout_cs" /\ pc'[s] # pc[s]))
                => /\ detector_lock \in Sessions
                   /\ InLockedBlock(detector_lock)
                   /\ pc'[detector_lock] # pc[detector_lock]
                   /\ detector_lock' = ""
      ]_vars

\* C16 witness: one session is constructing an engine while another
\* session holds the lock.
C16_Witness ==
    \E s \in Sessions, t \in Sessions :
        /\ s # t
        /\ pc[s] = "create"
        /\ detector_lock = t
        /\ pc[t] = "checkout_cs"

\* Session s is in the load that an audio chunk starts when no detector
\* is loaded (lines 226-228), or has been ended by its failure.
InLazyLoad(s) ==
    /\ event[s].type = "audio-chunk"
    /\ (InCheckout(s) \/ pc[s] = "failed")

\* C17: process() is only called with a detector loaded (the assert of
\* line 230 holds whenever the frame loop is entered).  An audio chunk
\* that arrives with no detector loads DEFAULT_KEYWORD: until that load
\* returns, and when it fails, no frame of the chunk has been processed
\* or buffered and nothing is written; when it returns, the frames are
\* cut with the frame length of the default keyword's detector.
C17_ProcessNeedsDetector ==
    /\ [](\A s \in Sessions :
            /\ pc[s] = "loop" =>
                  /\ event[s].type = "audio-chunk"
                  /\ detector[s] # NoDetector
                  /\ detector[s].keyword = keyword_name[s]
                  /\ bytes_per_chunk[s] = 2 * FrameLength(detector[s])
            /\ InLazyLoad(s) =>
                  /\ Requested(s) = DEFAULT_KEYWORD
                  /\ detector[s] = NoDetector
                  /\ released[s] = NoDetector
                  /\ keyword_index[s] = -1
                  /\ written[s] = <<>>)
    /\ [][\A s \in Sessions :
            /\ Len(fed'[s]) > Len(fed[s]) =>
                  /\ detector[s] # NoDetector
                  /\ Len(fed'[s][Len(fed'[s])]) = 2 * FrameLength(detector[s])
            /\ (InLazyLoad(s) /\ pc[s] # "failed") =>
                  /\ audio_buffer'[s] # audio_buffer[s] => pc'[s] \in {"loop", "idle"}
                  /\ pc'[s] \in {"loop", "idle"} =>
                        /\ detector'[s] # NoDetector
                        /\ detector'[s].keyword = DEFAULT_KEYWORD
                        /\ keyword_name'[s] = DEFAULT_KEYWORD
                        /\ audio_buffer'[s] = audio_buffer[s] \o event[s].audio
                        /\ fed'[s] = <<>>
                  /\ pc'[s] = "failed" =>
                        /\ fed'[s] = fed[s]
                        /\ audio_buffer'[s] = audio_buffer[s]
       ]_vars

\* C17 witness: the first event of a connection is an audio chunk and its
\* first frame is about to be processed by the default keyword's detector.
C17_Witness ==
    \E s \in Sessions :
        /\ nevents = 1
        /\ pc[s] = "loop"
        /\ event[s].type = "audio-chunk"
        /\ detector[s].keyword = DEFAULT_KEYWORD
        /\ fed[s] = <<>>

C19_FrameLoopTerminates ==
    /\ [](\A s \in Sessions :
            pc[s] = "loop" =>
                /\ bytes_per_chunk[s] > 0
                /\ Len(audio_buffer[s]) >= bytes_per_chunk[s])
    /\ [][\A s \in Sessions :
            (pc[s] = "loop" /\ <<pc[s], audio_buffer[s], fed[s]>>' #
                               <<pc[s], audio_buffer[s], fed[s]>>) =>
                /\ fed'[s] = Append(fed[s], SubSeq(audio_buffer[s], 1, bytes_per_chunk[s]))
                /\ audio_buffer[s] = fed'[s][Len(fed'[s])] \o audio_buffer'[s]
                /\ Len(audio_buffer'[s]) = Len(audio_buffer[s]) - bytes_per_chunk[s]
                /\ bytes_per_chunk'[s] = bytes_per_chunk[s]
                /\ pc'[s] \in {"loop", "idle"}
                /\ pc'[s] = "idle" <=> Len(audio_buffer'[s]) < bytes_per_chunk[s]
       ]_vars
    /\ \A s \in Streamers : (pc[s] = "loop") ~> (pc[s] = "idle")

\* C19 witness: a frame in which the engine reported a match has been cut
\* off and the loop goes on with the next frame.
C19_Witness ==
    \E s \in Sessions :
        /\ pc[s] = "loop"
        /\ keyword_index[s] >= 0
        /\ fed[s] # <<>>
        /\ Len(audio_buffer[s]) >= bytes_per_chunk[s]

\* C20: no detector occurs twice in the idle lists, at two places of one
\* list or in two lists, and every detector in the idle list of keyword k
\* wraps an engine created for k; a session's keyword_name is the keyword
\* of the detector it holds, which is the key it checks it in under.
C20_IdleListsWellFormed ==
    /\ \A k \in KEYWORDS : \A i \in 1..Len(detector_cache[k]) :
          /\ detector_cache[k][i] # NoDetector
          /\ detector_cache[k][i].keyword = k
          /\ \A k2 \in KEYWORDS : \A j \in 1..Len(detector_cache[k2]) :
                detector_cache[k2][j].id = detector_cache[k][i].id
                    => (k2 = k /\ j = i)
    /\ \A s \in Sessions :
          detector[s] # NoDetector => keyword_name[s] = detector[s].keyword

\* C20 witness: two detectors, checked in by two sessions, are idle in the
\* list of one keyword.
C20_Witness ==
    \E k \in KEYWORDS :
        /\ Len(detector_cache[k]) >= 2
        /\ detector_cache[k][1].id # detector_cache[k][2].id

====
